---- MODULE Spec2Model ----
(***************************************************************************)
(* A model of bot.py, the SUIMON card bot: the per-user generation gate    *)
(* kept in user_data["can_generate"], the four telegram handlers run as    *)
(* coroutines on one asyncio event loop, the foil stamp compositor, the    *)
(* two OCR audits and the loading of the module.                           *)
(*                                                                         *)
(* Scheduling.  A coroutine gives up the event loop only at an `await`.    *)
(* `running` is the task that holds the loop (0 when no task does); a task *)
(* in a synchronous stretch keeps it from one step to the next.  The       *)
(* application is built without concurrent_updates and its handlers block: *)
(* the dispatcher awaits the handler of one update before it takes the     *)
(* next update off the queue, so a handler suspended at an await is the    *)
(* only handler there is.                                                  *)
(*                                                                         *)
(* Numbers.  The float settings FOIL_SCALE, FOIL_X_OFFSET, FOIL_Y_OFFSET   *)
(* are rationals <<n, d>> with d > 0; int() truncates toward zero.         *)
(*                                                                         *)
(* Start-up.  Loading the module is modelled on its own (SpecLoad): its    *)
(* statements run top to bottom until one raises.  The bot (Spec) takes    *)
(* the four handlers as registered on the application, as the statements   *)
(* after ptb_app is built register them.                                   *)
(***************************************************************************)
EXTENDS Integers, Sequences, FiniteSets, TLC

VARIABLES
    user_data,    \* context.user_data of every user: a dict, key -> value
    pc,           \* where every task (one inbound update) stands
    ev,           \* the update a running task handles: [kind, user, data]
    running,      \* the task holding the event loop, 0 when none does
    replies,      \* what a running task has delivered to its user, in order
    failed,       \* the call of a running task that raised, "none" if none
    audit,        \* handle_image's locals hp_ok and flavor_ok, <<>> before
    gate,         \* how handle_image's gate check ended for a running task
    synth,        \* the running tasks that have called the image API
    escaped,      \* whether the handler that ended last ended by raising
    served,       \* history: arming events handled when an image was
                  \*          last accepted, for every user
    arms,         \* history: arming events handled for every user
    hist,         \* history: the last gate events of every user
    env,          \* the process environment: FOIL_SCALE and the offsets
    logo_file,    \* what is at FOIL_STAMP_PATH
    fs,           \* the compositor applied to drawn inputs
    au,           \* the audit functions applied to a drawn OCR outcome
    ld            \* the module being loaded: its statements run in order

vars == <<user_data, pc, ev, running, replies, failed, audit, gate, synth,
          escaped, served, arms, hist, env, logo_file, fs, au, ld>>

botVars   == <<user_data, pc, ev, running, replies, failed, audit, gate,
               synth, escaped, served, arms, hist>>
deployVars == <<env, logo_file>>

----------------------------------------------------------------------------
(* Bounds *)

MaxTasks  == 4       \* inbound updates in one run
MaxInFlight == 2     \* handlers in flight, were updates handled concurrently
HistLen   == MaxTasks   \* gate events remembered per user: all of a run
MaxCardW  == 4       \* card widths drawn for the compositor
MaxCardH  == 3       \* card heights drawn for the compositor
MaxLogo   == 3       \* overlay widths and heights drawn for the compositor
MaxScaleN == 6       \* largest scale numerator drawn (over ScaleDen)
MaxOffN   == 1       \* largest offset numerator drawn (over ScaleDen)
MaxTokens == 3       \* tokens in a recognized text

Users == {"u1", "u2"}
Tasks == 1..MaxTasks

----------------------------------------------------------------------------
(* Python values *)

\* dict.get(key, default)
Get(d, k, default) == IF k \in DOMAIN d THEN d[k] ELSE default

\* d[key] = value
Put(d, k, v) == [x \in (DOMAIN d) \cup {k} |-> IF x = k THEN v ELSE d[x]]

EmptyDict == [x \in {} |-> FALSE]

\* int(n / d) for d > 0: truncation toward zero
Trunc(n, d) == IF n >= 0 THEN n \div d ELSE -((-n) \div d)

RECURSIVE GCD(_, _)
GCD(m, n) == IF n = 0 THEN m ELSE GCD(n, m % n)

RECURSIVE IsPowerOfTwo(_)
IsPowerOfTwo(n) == n = 1 \/ (n > 1 /\ n % 2 = 0 /\ IsPowerOfTwo(n \div 2))

\* b / c is a binary fraction: the float division is exact
ExactQuotient(b, c) ==
    LET m == IF b >= 0 THEN b ELSE -b IN IsPowerOfTwo(c \div GCD(m, c))

\* int(a * (b / c)) computed in floating point, c > 0: b / c is rounded
\* before the product is, so when b / c is no binary fraction and
\* a * b / c is a whole number, the float may fall just short of it and
\* truncate one lower (int(15 * (49 / 3)) is 244).
FloatTrunc(a, b, c) ==
    LET n == a * b
        q == Trunc(n, c)
    IN  IF n % c # 0 \/ q = 0 \/ ExactQuotient(b, c) THEN {q}
        ELSE IF q > 0 THEN {q, q - 1} ELSE {q, q + 1}

----------------------------------------------------------------------------
(* add_foil_stamp: the compositor *)

CardW == 1024        \* size="1024x1536" asked of the image API
CardH == 1536

DefaultScale  == <<13, 100>>     \* os.getenv("FOIL_SCALE", 0.13)
DefaultOffset == <<0, 1>>        \* os.getenv("FOIL_X_OFFSET", 0.0)

\* Image.open(logo_path).convert("RGBA"): the file is there and decodes
LogoOpens(logo) == logo.state = "image"

\* logo_width = int(card.width * foil_scale)
LogoWidth(card, scale) == Trunc(card.w * scale[1], scale[2])

\* ratio = logo_width / logo.width; logo_height = int(logo.height * ratio)
LogoHeights(logo, logo_width) == FloatTrunc(logo.h, logo_width, logo.w)

\* logo.resize((logo_width, logo_height), LANCZOS) raises
\* "height and width must be > 0" for a size below 1
ResizeOk(logo_width, logo_height) == logo_width >= 1 /\ logo_height >= 1

\* pos = int(card.extent - logo_extent + card.extent * offset)
Pos(extent, logo_extent, off) ==
    Trunc((extent - logo_extent) * off[2] + extent * off[1], off[2])

\* card.alpha_composite(logo_resized, dest=(pos_x, pos_y)): a destination
\* past the right or bottom edge is cropped; a negative destination raises
\* "Destination must be non-negative" in the releases of the imaging
\* library that check it and is cropped in those that do not.
CompositeOutcomes(pos_x, pos_y) ==
    IF pos_x < 0 \/ pos_y < 0 THEN {TRUE, FALSE} ELSE {TRUE}

NoStamp == [ok |-> FALSE, error |-> "pending", logo_width |-> 0,
            logo_height |-> 0, pos_x |-> 0, pos_y |-> 0]

\* The outcomes of add_foil_stamp(card_image, logo_path) under the
\* environment e: ok with the encoded card, or the call that raised.
add_foil_stamp(card, logo, e) ==
    IF ~LogoOpens(logo)
    THEN {[NoStamp EXCEPT !.error = "open"]}
    ELSE LET logo_width == LogoWidth(card, e.scale)
         IN  { [ok          |-> ResizeOk(logo_width, logo_height) /\ c,
                error       |-> IF ~ResizeOk(logo_width, logo_height)
                                THEN "resize"
                                ELSE IF c THEN "none" ELSE "composite",
                logo_width  |-> logo_width,
                logo_height |-> logo_height,
                pos_x       |-> Pos(card.w, logo_width, e.x),
                pos_y       |-> Pos(card.h, logo_height, e.y)] :
               <<logo_height, c>> \in
                 { p \in LogoHeights(logo, logo_width) \X BOOLEAN :
                     p[2] \in CompositeOutcomes(
                                Pos(card.w, logo_width, e.x),
                                Pos(card.h, p[1], e.y)) } }

----------------------------------------------------------------------------
(* The pixels of add_foil_stamp *)

(* An image is [mode, w, h] with a pixel at every position <<column, row>>, *)
(* counted from 1.  A colour is a pair of integers; an RGBA pixel is        *)
(* [c, a], colour and alpha (0 transparent, 255 opaque).                    *)

Positions(w, h) == (1..w) \X (1..h)

Opaque == 255        \* the alpha of an opaque pixel

\* card_image.convert("RGBA"), one pixel: an image without an alpha channel
\* becomes opaque
ToRGBA(mode, p) == IF mode = "RGB" THEN [c |-> p, a |-> Opaque] ELSE p

\* The convert skipped for a card that is RGBA already, as
\* generate_suimon_card does with the user's photo: card is card_image
ConvertCopies_whenneeded(mode) == mode # "RGBA"

\* card = card_image.convert("RGBA"): convert returns a new image, a copy
\* when the mode is RGBA already; card is never the caller's card_image
ConvertCopies(mode) == TRUE

\* The overlay pasted opaquely, its alpha channel ignored
Blend_paste(dst, src) == src

\* One pixel of alpha_composite, src over dst: a transparent overlay pixel
\* leaves the card pixel, an opaque one replaces it, any other is blended
Blend(dst, src) ==
    IF src.a = 0 THEN dst
    ELSE IF src.a = Opaque THEN src
    ELSE [c |-> <<-dst.c[1], -dst.c[2]>>,
          a |-> src.a + (dst.a * (Opaque - src.a)) \div Opaque]

\* card.alpha_composite(logo_resized, dest=(pos_x, pos_y)) on the pixels:
\* the overlay pixel at <<i - pos_x, j - pos_y>> lands on <<i, j>>; what
\* falls outside the card is cropped
Composite(card, logo_resized, pos_x, pos_y) ==
    [card EXCEPT !.px =
        [p \in Positions(card.w, card.h) |->
            LET q == <<p[1] - pos_x, p[2] - pos_y>>
            IN  IF q \in Positions(logo_resized.w, logo_resized.h)
                THEN Blend(card.px[p], logo_resized.px[q])
                ELSE card.px[p]]]

----------------------------------------------------------------------------
(* The compositor on drawn inputs *)

ScaleDen == 4        \* drawn scales and offsets are quarters

\* A drawn card: every position has a colour of its own, and a card with an
\* alpha channel is transparent on every other pixel
CardImage(mode, w, h) ==
    [mode |-> mode, w |-> w, h |-> h,
     px |-> [p \in Positions(w, h) |->
               IF mode = "RGB" THEN p
               ELSE [c |-> p, a |-> IF (p[1] + p[2]) % 2 = 0 THEN Opaque
                                    ELSE 0]]]

Cards     == {CardImage(m, w, h) :
                m \in {"RGB", "RGBA"}, w \in 1..MaxCardW, h \in 1..MaxCardH}

Foil == <<0, 0>>     \* the colour of the overlay

\* What the resampled overlay may look like: transparent, opaque, half
\* transparent, or opaque and transparent pixels in turn
AlphaPatterns == {"clear", "solid", "soft", "alternating"}

\* logo.resize((logo_width, logo_height), LANCZOS), as an RGBA image
Resized(pat, logo_width, logo_height) ==
    [mode |-> "RGBA", w |-> logo_width, h |-> logo_height,
     px |-> [q \in Positions(logo_width, logo_height) |->
               [c |-> Foil,
                a |-> CASE pat = "clear" -> 0
                        [] pat = "solid" -> Opaque
                        [] pat = "soft"  -> Opaque \div 2
                        [] OTHER -> IF (q[1] + q[2]) % 2 = 0 THEN 0
                                    ELSE Opaque]]]

NoImage == [mode |-> "none", w |-> 0, h |-> 0, px |-> <<>>]
LogoFiles == {[state |-> "missing", w |-> 0, h |-> 0],
              [state |-> "garbage", w |-> 0, h |-> 0]}
             \cup [state : {"image"}, w : 1..MaxLogo, h : 1..MaxLogo]
Scales    == {<<n, ScaleDen>> : n \in (-1)..MaxScaleN} \cup {DefaultScale}
Offsets   == {<<n, ScaleDen>> : n \in (-MaxOffN)..MaxOffN}
Envs      == [scale : Scales, x : Offsets, y : Offsets]

\* fs: the caller's card_image, and after the call how it ended, what the
\* resampled overlay looked like and the image encoded into the returned
\* bytes
IdleStamp == [phase |-> "idle", card |-> NoImage, out |-> NoStamp,
              overlay |-> "none", png |-> NoImage]

\* card_image.convert("RGBA")
Convert(image) ==
    [image EXCEPT !.mode = "RGBA",
                  !.px = [p \in Positions(image.w, image.h) |->
                            ToRGBA(image.mode, image.px[p])]]

\* One call of add_foil_stamp on the drawn card, overlay and environment:
\* the sizes and the position, the blend onto card, the encoding of card.
\* card_image is written only if card is the same image.
Compose ==
    /\ fs.phase = "in"
    /\ \E r \in add_foil_stamp(fs.card, logo_file, env),
          pat \in AlphaPatterns :
          LET card == Convert(fs.card)
              logo_resized == Resized(pat, r.logo_width, r.logo_height)
              stamped == Composite(card, logo_resized, r.pos_x, r.pos_y)
          IN  fs' = [fs EXCEPT
                       !.phase = "out",
                       !.out = r,
                       !.overlay = IF r.ok THEN pat ELSE "none",
                       !.png = IF r.ok THEN stamped ELSE NoImage,
                       !.card = IF r.ok /\ ~ConvertCopies(fs.card.mode)
                                THEN stamped ELSE @]
    /\ UNCHANGED <<botVars, deployVars, au, ld>>

----------------------------------------------------------------------------
(* check_hp_visibility and check_flavor_text: the OCR audits *)

(* A recognized text is a sequence of one-character strings; an OCR outcome *)
(* is [raised, text]: pytesseract.image_to_string raised, or returned text. *)

Lowers == <<"a", "b", "c", "d", "e", "f", "g", "h", "i", "j", "k", "l", "m",
            "n", "o", "p", "q", "r", "s", "t", "u", "v", "w", "x", "y", "z">>
Uppers == <<"A", "B", "C", "D", "E", "F", "G", "H", "I", "J", "K", "L", "M",
            "N", "O", "P", "Q", "R", "S", "T", "U", "V", "W", "X", "Y", "Z">>

\* str.upper() and str.lower()
Upper(s) == [i \in DOMAIN s |->
               IF \E k \in DOMAIN Lowers : Lowers[k] = s[i]
               THEN Uppers[CHOOSE k \in DOMAIN Lowers : Lowers[k] = s[i]]
               ELSE s[i]]
Lower(s) == [i \in DOMAIN s |->
               IF \E k \in DOMAIN Uppers : Uppers[k] = s[i]
               THEN Lowers[CHOOSE k \in DOMAIN Uppers : Uppers[k] = s[i]]
               ELSE s[i]]

\* pat in s
Contains(s, pat) ==
    \E i \in 0..(Len(s) - Len(pat)) :
        \A j \in 1..Len(pat) : s[i + j] = pat[j]

IsSpace(c) == c \in {" ", "\t", "\n", "\r"}
IsBreak(c) == c \in {"\n", "\r"}

\* str.strip()
RECURSIVE LStrip(_)
LStrip(s) == IF s # <<>> /\ IsSpace(Head(s)) THEN LStrip(Tail(s)) ELSE s
RECURSIVE RStrip(_)
RStrip(s) == IF s # <<>> /\ IsSpace(s[Len(s)])
             THEN RStrip(SubSeq(s, 1, Len(s) - 1)) ELSE s
Strip(s) == RStrip(LStrip(s))

\* str.splitlines(): the lines between line breaks, "\r\n" one break, no
\* empty last line after a final break
RECURSIVE SplitLines(_)
SplitLines(s) ==
    LET breaks == {i \in DOMAIN s : IsBreak(s[i])}
    IN  IF s = <<>> THEN <<>>
        ELSE IF breaks = {} THEN <<s>>
        ELSE LET i == CHOOSE k \in breaks : \A j \in breaks : k <= j
                 next == IF s[i] = "\r" /\ i < Len(s) /\ s[i + 1] = "\n"
                         THEN i + 2 ELSE i + 1
             IN  <<SubSeq(s, 1, i - 1)>>
                    \o SplitLines(SubSeq(s, next, Len(s)))

FlavorMin == 5       \* 5 < len(ln)
FlavorMax == 80      \* len(ln) < 80

\* The length limits taken inclusive: 5 <= len(ln) <= 80
IsFlavorCandidate_inclusive(ln) ==
    /\ FlavorMin <= Len(ln) /\ Len(ln) <= FlavorMax
    /\ ~Contains(Lower(ln), <<"w", "e", "a", "k">>)
    /\ ~Contains(Lower(ln), <<"r", "e", "s", "i", "s", "t">>)

\* 5 < len(ln) < 80 and "weak" not in ln.lower() and "resist" not in ln.lower()
IsFlavorCandidate(ln) ==
    /\ FlavorMin < Len(ln) /\ Len(ln) < FlavorMax
    /\ ~Contains(Lower(ln), <<"w", "e", "a", "k">>)
    /\ ~Contains(Lower(ln), <<"r", "e", "s", "i", "s", "t">>)

\* lines = [ln.strip() for ln in text.splitlines() if ln.strip()]
StrippedLines(text) ==
    LET all == SplitLines(text)
        stripped == [i \in DOMAIN all |-> Strip(all[i])]
        NonEmpty(ln) == ln # <<>>
    IN  SelectSeq(stripped, NonEmpty)

\* check_hp_visibility(card_image): "HP" in text.upper(), False when the
\* recognizer raises
check_hp_visibility(ocr) ==
    IF ocr.raised THEN FALSE
    ELSE Contains(Upper(ocr.text), <<"H", "P">>)

\* check_flavor_text(card_image): no candidate line twice, True when the
\* recognizer raises
check_flavor_text(ocr) ==
    IF ocr.raised THEN TRUE
    ELSE LET flavor_candidates == SelectSeq(StrippedLines(ocr.text),
                                            IsFlavorCandidate)
             unique_lines == {flavor_candidates[i] :
                                i \in DOMAIN flavor_candidates}
         IN  Len(flavor_candidates) = Cardinality(unique_lines)

----------------------------------------------------------------------------
(* The audits on drawn OCR outcomes *)

TokHP   == <<"H", "P", "1", "0", "0">>
TokLine == <<"a", " ", "f", "i", "e", "r", "y", " ", "c", "a", "t">>
TokNL   == <<"\n">>

\* A line of n letters
LongLine(n) == [i \in 1..n |-> "x"]

\* The pieces recognized texts are drawn from
Tokens == { TokHP, <<"h", "p">>, TokLine,
            <<"W", "e", "a", "k", "n", "e", "s", "s">>, <<" ">>, TokNL,
            LongLine(FlavorMax - 1), LongLine(FlavorMax) }

RECURSIVE TextsUpTo(_)
TextsUpTo(n) ==
    IF n = 0 THEN {<<>>}
    ELSE LET shorter == TextsUpTo(n - 1)
         IN  shorter \cup {t \o k : t \in shorter, k \in Tokens}

OcrOutcomes == {[raised |-> TRUE, text |-> <<>>]}
               \cup [raised : {FALSE}, text : TextsUpTo(MaxTokens)]

NoOcr == [raised |-> FALSE, text |-> <<>>]
IdleAudit == [phase |-> "idle", ocr |-> NoOcr, hp |-> FALSE,
              flavor |-> FALSE]

\* Both audits on one recognizer outcome
RunAudits ==
    /\ au.phase = "in"
    /\ au' = [au EXCEPT !.phase = "out",
                        !.hp = check_hp_visibility(au.ocr),
                        !.flavor = check_flavor_text(au.ocr)]
    /\ UNCHANGED <<botVars, deployVars, fs, ld>>

----------------------------------------------------------------------------
(* The handlers *)

NoEv == [kind |-> "none", user |-> "none", data |-> "none"]

InFlight == {t \in Tasks : pc[t] \notin {"new", "done"}}

\* The application built with concurrent_updates(True)
ConcurrentUpdates_on == TRUE

\* ApplicationBuilder().token(BOT_TOKEN).build(): concurrent_updates is left
\* at its default, off
ConcurrentUpdates == FALSE

\* An update is taken off the queue and its handler started when the loop
\* is free and, updates not being handled concurrently, the handler of the
\* update before it has ended; updates are numbered in the order they are
\* taken up.
Arrives(t) ==
    /\ running = 0
    /\ pc[t] = "new"
    /\ \A s \in Tasks : s < t => pc[s] # "new"
    /\ IF ConcurrentUpdates THEN Cardinality(InFlight) < MaxInFlight
       ELSE InFlight = {}

Remember(h, e) ==
    LET x == Append(h, e) IN IF Len(x) > HistLen THEN Tail(x) ELSE x

\* The handler of task t ends: it returns, or an exception leaves it
\* (esc).  Its locals are dropped.
Ends(t, esc) ==
    /\ escaped' = esc
    /\ pc' = [pc EXCEPT ![t] = "done"]
    /\ ev' = [ev EXCEPT ![t] = NoEv]
    /\ replies' = [replies EXCEPT ![t] = <<>>]
    /\ failed' = [failed EXCEPT ![t] = "none"]
    /\ audit' = [audit EXCEPT ![t] = <<>>]
    /\ gate' = [gate EXCEPT ![t] = "none"]
    /\ synth' = synth \ {t}
    /\ running' = 0

\* An awaited bot call of task t raised outside any try, or inside the
\* except clause: the exception leaves the handler.
Escapes(t) == Ends(t, TRUE)

\* The awaited last reply of task t was delivered and the handler returns.
Delivers(t) == Ends(t, FALSE)

\* An await of task t returned and the handler runs on to its next await.
Proceeds(t, next) ==
    /\ pc' = [pc EXCEPT ![t] = next]
    /\ UNCHANGED <<ev, running, replies, failed, audit, gate, synth, escaped>>

\* A handler starts on update e and runs to its first await.
Starts(t, e, first) ==
    /\ Arrives(t)
    /\ ev' = [ev EXCEPT ![t] = e]
    /\ pc' = [pc EXCEPT ![t] = first]

histVars == <<served, arms, hist>>
restVars == <<deployVars, fs, au, ld>>

\* start: up to the await of reply_text
start(t, u) ==
    /\ Starts(t, [kind |-> "start", user |-> u, data |-> "none"],
              "start_reply")
    /\ UNCHANGED <<user_data, running, replies, failed, audit, gate, synth,
                   escaped, histVars, restVars>>

start_replied(t) ==
    /\ running = 0
    /\ pc[t] = "start_reply"
    /\ Delivers(t) \/ Escapes(t)
    /\ UNCHANGED <<user_data, histVars, restVars>>

\* One dict kept for all users, as context.bot_data is
UserDataOf_shared(u) == CHOOSE v \in Users : TRUE

\* context.user_data is the dict the application keeps for the user the
\* update comes from
UserDataOf(u) == u

\* context.user_data["can_generate"] = True
Arm(ud) == Put(ud, "can_generate", TRUE)

\* generate: arms the gate, up to the await of reply_text
generate(t, u) ==
    /\ Starts(t, [kind |-> "generate", user |-> u, data |-> "none"],
              "generate_reply")
    /\ user_data' = [user_data EXCEPT ![UserDataOf(u)] = Arm(@)]
    /\ arms' = [arms EXCEPT ![u] = @ + 1]
    /\ hist' = [hist EXCEPT ![u] = Remember(@, "generate")]
    /\ UNCHANGED <<running, replies, failed, audit, gate, synth, escaped,
                   served, restVars>>

generate_replied(t) ==
    /\ running = 0
    /\ pc[t] = "generate_reply"
    /\ Delivers(t) \/ Escapes(t)
    /\ UNCHANGED <<user_data, histVars, restVars>>

\* The gate check dropped: every image passes
GateOpen_always(ud) == TRUE

\* context.user_data.get("can_generate", False)
GateOpen(ud) == Get(ud, "can_generate", FALSE)

\* The reset of the flag forgotten
Disarm_skipped(ud) == ud

\* context.user_data["can_generate"] = False
Disarm(ud) == Put(ud, "can_generate", FALSE)

\* handle_image: the gate check, and on acceptance the reset of the flag,
\* up to the first await (the reply that rejects, or the "please wait" one)
handle_image(t, u) ==
    /\ IF GateOpen(user_data[UserDataOf(u)])
       THEN /\ Starts(t, [kind |-> "photo", user |-> u, data |-> "none"],
                      "wait_reply")
            /\ user_data' = [user_data EXCEPT ![UserDataOf(u)] = Disarm(@)]
            /\ gate' = [gate EXCEPT ![t] = "accepted"]
            /\ served' = [served EXCEPT ![u] = arms[u]]
            /\ hist' = [hist EXCEPT ![u] = Remember(@, "accepted")]
       ELSE /\ Starts(t, [kind |-> "photo", user |-> u, data |-> "none"],
                      "reject_reply")
            /\ gate' = [gate EXCEPT ![t] = "rejected"]
            /\ hist' = [hist EXCEPT ![u] = Remember(@, "rejected")]
            /\ UNCHANGED <<user_data, served>>
    /\ UNCHANGED <<running, replies, failed, audit, synth, escaped, arms,
                   restVars>>

\* await update.message.reply_text("Please use /generate ..."); return
image_reject_replied(t) ==
    /\ running = 0
    /\ pc[t] = "reject_reply"
    /\ Delivers(t) \/ Escapes(t)
    /\ UNCHANGED <<user_data, histVars, restVars>>

\* await update.message.reply_text("Generating ..."), then photo.get_file()
image_wait_replied(t) ==
    /\ running = 0
    /\ pc[t] = "wait_reply"
    /\ \/ /\ pc' = [pc EXCEPT ![t] = "get_file"]
          /\ replies' = [replies EXCEPT ![t] = Append(@, "please_wait")]
          /\ UNCHANGED <<ev, running, failed, audit, gate, synth, escaped>>
       \/ Escapes(t)
    /\ UNCHANGED <<user_data, histVars, restVars>>

\* photo_file = await photo.get_file(), then download_to_memory
image_got_file(t) ==
    /\ running = 0
    /\ pc[t] = "get_file"
    /\ Proceeds(t, "download") \/ Escapes(t)
    /\ UNCHANGED <<user_data, histVars, restVars>>

\* await photo_file.download_to_memory(out=meme_bytes_io), then
\* send_chat_action
image_downloaded(t) ==
    /\ running = 0
    /\ pc[t] = "download"
    /\ Proceeds(t, "chat_action") \/ Escapes(t)
    /\ UNCHANGED <<user_data, histVars, restVars>>

\* generate_suimon_card is a plain call made from the coroutine: the task
\* that makes it keeps the event loop until it returns
HoldsLoopInSynthesis(t) == t

\* await context.bot.send_chat_action(...); the handler then enters its try
\* and calls generate_suimon_card
image_chat_action_sent(t) ==
    /\ running = 0
    /\ pc[t] = "chat_action"
    /\ \/ /\ pc' = [pc EXCEPT ![t] = "synth"]
          /\ running' = HoldsLoopInSynthesis(t)
          /\ synth' = synth \cup {t}
          /\ UNCHANGED <<ev, replies, failed, audit, gate, escaped>>
       \/ Escapes(t)
    /\ UNCHANGED <<user_data, histVars, restVars>>

\* How generate_suimon_card ends: the card, or Image.open of the user's
\* photo raised, or openai.images.edit raised or timed out, or the payload
\* did not decode
SynthOutcomes == {"ok", "photo_undecodable", "api_error", "api_timeout",
                  "payload_undecodable"}

\* except Exception as e: await update.message.reply_text("Sorry ...")
Caught(t, what) ==
    /\ failed' = [failed EXCEPT ![t] = what]
    /\ pc' = [pc EXCEPT ![t] = "sorry_reply"]
    /\ running' = 0
    /\ UNCHANGED <<ev, replies, audit, gate, synth, escaped>>

\* card_image = generate_suimon_card(meme_bytes_io, PROMPT_TEMPLATE)
image_synthesized(t) ==
    /\ running = t
    /\ pc[t] = "synth"
    /\ \E o \in SynthOutcomes :
          IF o = "ok"
          THEN /\ pc' = [pc EXCEPT ![t] = "audit"]
               /\ UNCHANGED <<ev, running, replies, failed, audit, gate,
                              synth, escaped>>
          ELSE Caught(t, o)
    /\ UNCHANGED <<user_data, histVars, restVars>>

\* Texts a generated card may read as
CardTexts == {<<>>, TokHP, TokHP \o TokNL \o TokLine,
              TokLine \o TokNL \o TokLine}

\* The audits enforced: a failed audit takes the except path
AfterAudit_enforced(hp_ok, flavor_ok) ==
    IF hp_ok /\ flavor_ok THEN "stamp" ELSE "sorry_reply"

\* Where handle_image goes after the two audits: the warnings are printed
\* and add_foil_stamp is called, whatever the audits returned
AfterAudit(hp_ok, flavor_ok) == "stamp"

\* hp_ok = check_hp_visibility(card_image);
\* flavor_ok = check_flavor_text(card_image); the two warnings
image_audited(t) ==
    /\ running = t
    /\ pc[t] = "audit"
    /\ \E text \in CardTexts, r1, r2 \in BOOLEAN :
          LET hp_ok == check_hp_visibility([raised |-> r1, text |-> text])
              flavor_ok == check_flavor_text([raised |-> r2, text |-> text])
          IN  /\ audit' = [audit EXCEPT ![t] =
                             <<[hp_ok |-> hp_ok, flavor_ok |-> flavor_ok]>>]
              /\ pc' = [pc EXCEPT ![t] = AfterAudit(hp_ok, flavor_ok)]
    /\ UNCHANGED <<user_data, ev, running, replies, failed, gate, synth, escaped,
                   histVars, restVars>>

\* final_card_bytes = add_foil_stamp(card_image, FOIL_STAMP_PATH), then the
\* keyboard and the await of reply_photo
image_stamped(t) ==
    /\ running = t
    /\ pc[t] = "stamp"
    /\ \E r \in add_foil_stamp([w |-> CardW, h |-> CardH], logo_file, env) :
          IF r.ok
          THEN /\ pc' = [pc EXCEPT ![t] = "send_photo"]
               /\ running' = 0
               /\ UNCHANGED <<ev, replies, failed, audit, gate, synth, escaped>>
          ELSE Caught(t, "stamp")
    /\ UNCHANGED <<user_data, histVars, restVars>>

\* await update.message.reply_photo(...), the last statement of the try
image_photo_sent(t) ==
    /\ running = 0
    /\ pc[t] = "send_photo"
    /\ Delivers(t) \/ Caught(t, "send_photo")
    /\ UNCHANGED <<user_data, histVars, restVars>>

\* await update.message.reply_text(f"Sorry, something went wrong: {e}")
image_sorry_sent(t) ==
    /\ running = 0
    /\ pc[t] = "sorry_reply"
    /\ Delivers(t) \/ Escapes(t)
    /\ UNCHANGED <<user_data, histVars, restVars>>

ButtonData == {"create_another", "other"}

\* button_callback: up to await query.answer()
button_callback(t, u, d) ==
    /\ Starts(t, [kind |-> "button", user |-> u, data |-> d], "answer")
    /\ UNCHANGED <<user_data, running, replies, failed, audit, gate, synth,
                   escaped, histVars, restVars>>

\* The comparison of query.data dropped: every click arms
ArmsOnClick_any(d) == TRUE

\* if query.data == "create_another"
ArmsOnClick(d) == d = "create_another"

\* await query.answer() returned; a "create_another" click arms the gate,
\* up to the await of reply_text
button_answered(t) ==
    /\ running = 0
    /\ pc[t] = "answer"
    /\ \/ /\ ArmsOnClick(ev[t].data)
          /\ user_data' = [user_data EXCEPT
                              ![UserDataOf(ev[t].user)] = Arm(@)]
          /\ arms' = [arms EXCEPT ![ev[t].user] = @ + 1]
          /\ hist' = [hist EXCEPT ![ev[t].user] =
                        Remember(@, "create_another")]
          /\ Proceeds(t, "button_reply")
       \/ /\ ~ArmsOnClick(ev[t].data)
          /\ Ends(t, FALSE)
          /\ UNCHANGED <<user_data, arms, hist>>
       \/ /\ Escapes(t)
          /\ UNCHANGED <<user_data, arms, hist>>
    /\ UNCHANGED <<served, restVars>>

\* await query.message.reply_text("Awesome! ...")
button_replied(t) ==
    /\ running = 0
    /\ pc[t] = "button_reply"
    /\ Delivers(t) \/ Escapes(t)
    /\ UNCHANGED <<user_data, histVars, restVars>>

\* An update no registered handler matches (a text message, a sticker):
\* no handler runs
unhandled(t, u) ==
    /\ Arrives(t)
    /\ pc' = [pc EXCEPT ![t] = "done"]
    /\ UNCHANGED <<user_data, ev, running, replies, failed, audit, gate,
                   synth, escaped, histVars, restVars>>

\* Update t, of user u, is taken off the queue
TakenUp(t, u) ==
    \/ start(t, u)
    \/ generate(t, u)
    \/ handle_image(t, u)
    \/ \E d \in ButtonData : button_callback(t, u, d)
    \/ unhandled(t, u)

\* Task t, suspended at an await, is resumed
Resume(t) ==
    \/ start_replied(t)
    \/ generate_replied(t)
    \/ image_reject_replied(t)
    \/ image_wait_replied(t)
    \/ image_got_file(t)
    \/ image_downloaded(t)
    \/ image_chat_action_sent(t)
    \/ image_photo_sent(t)
    \/ image_sorry_sent(t)
    \/ button_answered(t)
    \/ button_replied(t)

AwaitLabels == {"start_reply", "generate_reply", "reject_reply", "wait_reply",
                "get_file", "download", "chat_action", "send_photo",
                "sorry_reply", "answer", "button_reply"}

----------------------------------------------------------------------------
(* Loading the module: the statements at module level, run top to bottom *)

(* A statement is [line, op, name, uses]: `uses` are the global names it   *)
(* reads when it runs, `name` is what it binds or, for add_handler, the    *)
(* callback it registers.  The body of a def is not run when the def is.   *)

Imports == {"os", "openai", "FastAPI", "ApplicationBuilder", "CommandHandler",
            "MessageHandler", "CallbackQueryHandler", "filters"}

Stmt(line, op, name, uses) ==
    [line |-> line, op |-> op, name |-> name, uses |-> uses]

ModuleBody ==
    << Stmt(21, "bind", "BOT_TOKEN", {"os"}),
       Stmt(22, "bind", "OPENAI_API_KEY", {"os"}),
       Stmt(23, "bind", "FOIL_STAMP_PATH", {}),
       Stmt(24, "bind", "WEBHOOK_PATH", {}),
       Stmt(25, "int", "PORT", {"os"}),
       Stmt(26, "bind", "DOMAIN", {"os"}),
       Stmt(27, "bind", "WEBHOOK_URL", {"DOMAIN", "WEBHOOK_PATH"}),
       Stmt(29, "bind", "openai.api_key", {"openai", "OPENAI_API_KEY"}),
       Stmt(31, "bind", "PROMPT_TEMPLATE", {}),
       Stmt(56, "bind", "generate_suimon_card", {}),
       Stmt(84, "bind", "add_foil_stamp", {}),
       Stmt(115, "bind", "check_hp_visibility", {}),
       Stmt(126, "bind", "check_flavor_text", {}),
       Stmt(147, "bind", "start", {}),
       Stmt(152, "bind", "generate", {}),
       Stmt(161, "bind", "handle_image", {}),
       Stmt(212, "bind", "button_callback", {}),
       Stmt(225, "add_handler", "start",
            {"ptb_app", "CommandHandler", "start"}),
       Stmt(226, "add_handler", "generate",
            {"ptb_app", "CommandHandler", "generate"}),
       Stmt(227, "add_handler", "handle_image",
            {"ptb_app", "MessageHandler", "filters", "handle_image"}),
       Stmt(228, "add_handler", "button_callback",
            {"ptb_app", "CallbackQueryHandler", "button_callback"}),
       Stmt(233, "bind", "fastapi_app", {"FastAPI"}),
       Stmt(234, "build", "ptb_app", {"ApplicationBuilder", "BOT_TOKEN"}),
       Stmt(239, "add_handler", "start",
            {"ptb_app", "CommandHandler", "start"}),
       Stmt(240, "add_handler", "generate",
            {"ptb_app", "CommandHandler", "generate"}),
       Stmt(241, "add_handler", "handle_image",
            {"ptb_app", "MessageHandler", "filters", "handle_image"}),
       Stmt(242, "add_handler", "button_callback",
            {"ptb_app", "CallbackQueryHandler", "button_callback"}),
       Stmt(247, "bind", "startup_event", {"fastapi_app"}),
       Stmt(256, "bind", "telegram_webhook", {"fastapi_app", "WEBHOOK_PATH"}) >>

Callbacks == {"start", "generate", "handle_image", "button_callback"}

Digits == {"0", "1", "2", "3", "4", "5", "6", "7", "8", "9"}

\* int(s) of a string returns: blanks around, a sign, then digits
IsIntLiteral(s) ==
    LET t == Strip(s)
        d == IF t # <<>> /\ Head(t) \in {"+", "-"} THEN Tail(t) ELSE t
    IN  d # <<>> /\ \A i \in DOMAIN d : d[i] \in Digits

\* What running statement st raises in load state l, "none" if nothing:
\* a global name read before it is bound; int() of a PORT that is no
\* number; the builder refusing an empty token
Raises(st, l) ==
    IF ~(st.uses \subseteq l.names) THEN "NameError"
    ELSE IF st.op = "int" /\ l.environ.PORT.set
                          /\ ~IsIntLiteral(l.environ.PORT.value)
         THEN "ValueError"
    ELSE IF st.op = "build" /\ ~l.environ.TELEGRAM_BOT_TOKEN
         THEN "InvalidToken"
    ELSE "none"

\* The load state after the statement at l.at has run: the load stops at
\* the statement that raises
Exec(l) ==
    LET st == ModuleBody[l.at]
        e == Raises(st, l)
    IN  IF e # "none" THEN [l EXCEPT !.error = e, !.ended = TRUE]
        ELSE [l EXCEPT
                !.names = IF st.op = "add_handler" THEN @
                          ELSE @ \cup {st.name},
                !.handlers = IF st.op = "add_handler"
                             THEN Append(@, st.name) ELSE @,
                !.at = IF l.at = Len(ModuleBody) THEN @ ELSE @ + 1,
                !.ended = l.at = Len(ModuleBody)]

PortValues == { <<"1", "0", "0", "0", "0">>, <<" ", "8", "0">>, <<"+", "8">>,
                <<"8", "0", ".", "0">>, <<"h", "t", "t", "p">>, <<>> }

Environs == [PORT : {[set |-> FALSE, value |-> <<>>]}
                    \cup [set : {TRUE}, value : PortValues],
             TELEGRAM_BOT_TOKEN : BOOLEAN]

IdleLoad == [environ |-> [PORT |-> [set |-> FALSE, value |-> <<>>],
                          TELEGRAM_BOT_TOKEN |-> TRUE],
             at |-> 1, names |-> Imports, handlers |-> <<>>,
             error |-> "none", ended |-> TRUE]

\* The next statement of the module runs
load_step ==
    /\ ~ld.ended
    /\ ld' = Exec(ld)
    /\ UNCHANGED <<botVars, deployVars, fs, au>>

----------------------------------------------------------------------------
(* The bot *)

\* The deployments drawn: the default layout with a square stamp asset, and
\* the default layout with the asset missing
Deployments ==
    { <<[scale |-> DefaultScale, x |-> DefaultOffset, y |-> DefaultOffset],
        [state |-> "image", w |-> 512, h |-> 512]>>,
      <<[scale |-> DefaultScale, x |-> DefaultOffset, y |-> DefaultOffset],
        [state |-> "missing", w |-> 0, h |-> 0]>> }

InitBot ==
    /\ user_data = [u \in Users |-> EmptyDict]
    /\ pc = [t \in Tasks |-> "new"]
    /\ ev = [t \in Tasks |-> NoEv]
    /\ running = 0
    /\ replies = [t \in Tasks |-> <<>>]
    /\ failed = [t \in Tasks |-> "none"]
    /\ audit = [t \in Tasks |-> <<>>]
    /\ gate = [t \in Tasks |-> "none"]
    /\ synth = {}
    /\ escaped = FALSE
    /\ served = [u \in Users |-> 0]
    /\ arms = [u \in Users |-> 0]
    /\ hist = [u \in Users |-> <<>>]

Init ==
    /\ InitBot
    /\ \E d \in Deployments : env = d[1] /\ logo_file = d[2]
    /\ fs = IdleStamp
    /\ au = IdleAudit
    /\ ld = IdleLoad

Next ==
    \E t \in Tasks :
        \/ \E u \in Users : TakenUp(t, u)
        \/ start_replied(t)
        \/ generate_replied(t)
        \/ image_reject_replied(t)
        \/ image_wait_replied(t)
        \/ image_got_file(t)
        \/ image_downloaded(t)
        \/ image_chat_action_sent(t)
        \/ image_synthesized(t)
        \/ image_audited(t)
        \/ image_stamped(t)
        \/ image_photo_sent(t)
        \/ image_sorry_sent(t)
        \/ button_answered(t)
        \/ button_replied(t)

Spec == Init /\ [][Next]_vars

\* The compositor alone, on every drawn card, overlay file and environment
InitStamp ==
    /\ InitBot
    /\ env \in Envs
    /\ logo_file \in LogoFiles
    /\ \E c \in Cards : fs = [IdleStamp EXCEPT !.phase = "in", !.card = c]
    /\ au = IdleAudit
    /\ ld = IdleLoad

NextStamp == Compose

SpecStamp == InitStamp /\ [][NextStamp]_vars

\* The audits alone, on every drawn recognizer outcome
InitAudit ==
    /\ InitBot
    /\ \E d \in Deployments : env = d[1] /\ logo_file = d[2]
    /\ fs = IdleStamp
    /\ \E o \in OcrOutcomes : au = [IdleAudit EXCEPT !.phase = "in", !.ocr = o]
    /\ ld = IdleLoad

NextAudit == RunAudits

SpecAudit == InitAudit /\ [][NextAudit]_vars

\* The module loaded under every drawn environment
InitLoad ==
    /\ InitBot
    /\ \E d \in Deployments : env = d[1] /\ logo_file = d[2]
    /\ fs = IdleStamp
    /\ au = IdleAudit
    /\ \E e \in Environs : ld = [IdleLoad EXCEPT !.environ = e,
                                                 !.ended = FALSE]

NextLoad == load_step

SpecLoad == InitLoad /\ [][NextLoad]_vars

----------------------------------------------------------------------------
(* Properties *)

ImageEvents == {"accepted", "rejected"}

\* Task t's handler leaves the gate check having accepted the image
Accepts(t) == pc[t] = "new" /\ pc'[t] = "wait_reply"

\* Task t's handler ends in this step
Ended(t) == pc[t] \notin {"new", "done"} /\ pc'[t] = "done"

\* C1: in every user's sequence of gate events, the image that follows a
\* generate command is accepted, the image that follows an image with no
\* arming event in between is rejected, and the image that follows an
\* accepted image and then a "create another" click is accepted; a handler
\* that rejected its image is at the "please trigger generation first"
\* reply and has made no call of the image API.
GateSequences ==
    /\ \A u \in Users : \A i \in 1..(Len(hist[u]) - 1) :
          /\ (hist[u][i] = "generate" /\ hist[u][i + 1] \in ImageEvents)
                => hist[u][i + 1] = "accepted"
          /\ (hist[u][i] \in ImageEvents /\ hist[u][i + 1] \in ImageEvents)
                => hist[u][i + 1] = "rejected"
          /\ (/\ i + 2 <= Len(hist[u])
              /\ hist[u][i] = "accepted"
              /\ hist[u][i + 1] = "create_another"
              /\ hist[u][i + 2] \in ImageEvents)
                => hist[u][i + 2] = "accepted"
    /\ \A t \in Tasks :
          gate[t] = "rejected"
             => pc[t] = "reject_reply" /\ t \notin synth /\ replies[t] = <<>>

\* C1 witness: a user's generate, accepted image and rejected second image,
\* the rejecting handler at its reply
SecondImageRejected ==
    \E t \in Tasks :
        /\ pc[t] = "reject_reply"
        /\ hist[ev[t].user] = <<"generate", "accepted", "rejected">>

\* C2: an image is accepted only when an arming event of its user has been
\* handled since that user's last accepted image, and the step that accepts
\* it, which runs to the handler's first suspension point, leaves the flag
\* false: of two images on one arming at most one passes.
AtMostOnePasses ==
    [][\A t \in Tasks :
          Accepts(t) => /\ served[ev'[t].user] < arms[ev'[t].user]
                        /\ ~GateOpen(user_data'[ev'[t].user])]_vars

\* C2 witness: two images of one user on a single arming, the first
\* accepted and the second, at its reply, rejected
TwoImagesOneArming ==
    \E t \in Tasks :
        /\ gate[t] = "rejected"
        /\ arms[ev[t].user] = 1 /\ served[ev[t].user] = 1

SynthFailures == SynthOutcomes \ {"ok"}

\* C3, as claimed: when the handler of an accepted image ends after the
\* synthesis failed, its user's gate is armed.
RearmedAfterFailure ==
    [][\A t \in Tasks :
          (Ended(t) /\ gate[t] = "accepted" /\ failed[t] \in SynthFailures)
             => GateOpen(user_data'[ev[t].user])]_vars

\* C4, as claimed: the handler of an accepted image that got past its
\* "please wait" reply never ends by raising: it ends by delivering the
\* card or the apology.
ErrorsCaughtAtBoundary ==
    [][\A t \in Tasks :
          (Ended(t) /\ gate[t] = "accepted" /\ pc[t] # "wait_reply")
             => ~escaped' /\ pc[t] \in {"send_photo", "sorry_reply"}]_vars

\* C5, as claimed: when text recognition fails both audits return true.
AuditsPassOnOcrFailure ==
    (au.phase = "out" /\ au.ocr.raised) => (au.hp /\ au.flavor)

\* C6: whatever the two audits returned, the handler is at the compositor
\* or at the delivery of the card, or the compositor or the delivery
\* failed: no audit outcome ends the request or takes the except path.
AuditsAdvisory ==
    \A t \in Tasks :
        audit[t] # <<>>
           => \/ pc[t] \in {"stamp", "send_photo"}
              \/ pc[t] = "sorry_reply" /\ failed[t] \in {"stamp", "send_photo"}

\* C6 witness: the card is being delivered after both audits failed
DeliveredDespiteAudits ==
    \E t \in Tasks :
        /\ audit[t] = <<[hp_ok |-> FALSE, flavor_ok |-> FALSE]>>
        /\ pc[t] = "send_photo"

\* foil_scale in (0, 1]
ValidScale(scale) == scale[1] > 0 /\ scale[1] <= scale[2]

\* C7, as claimed: for a valid scale the placement rectangle lies inside
\* the card.
PlacementInsideCard ==
    (fs.phase = "out" /\ LogoOpens(logo_file) /\ ValidScale(env.scale))
       => /\ 0 <= fs.out.pos_x
          /\ fs.out.pos_x + fs.out.logo_width <= fs.card.w
          /\ 0 <= fs.out.pos_y
          /\ fs.out.pos_y + fs.out.logo_height <= fs.card.h

\* C8, as claimed: the compositor fails when the scale is not in (0, 1] or
\* the overlay asset does not load or decode.
FailsOnInvalidLayout ==
    (fs.phase = "out" /\ (~ValidScale(env.scale) \/ ~LogoOpens(logo_file)))
       => ~fs.out.ok

\* C9, as claimed: for a valid scale the resized overlay has a non-zero
\* size and its height is within one pixel of
\* logo_width * logo.height / logo.width.
AspectPreserved ==
    (fs.phase = "out" /\ LogoOpens(logo_file) /\ ValidScale(env.scale))
       => /\ fs.out.logo_width >= 1
          /\ fs.out.logo_height >= 1
          /\ fs.out.logo_height * logo_file.w
                - fs.out.logo_width * logo_file.h <= logo_file.w
          /\ fs.out.logo_width * logo_file.h
                - fs.out.logo_height * logo_file.w <= logo_file.w

\* C10, as claimed: while one user's call of the image API is outstanding,
\* the next update, if it is another user's, can be taken up by its handler.
SynthesisDoesNotBlock ==
    \A t1, t2 \in Tasks :
        (/\ pc[t1] = "synth"
         /\ pc[t2] = "new"
         /\ \A s \in Tasks : s < t2 => pc[s] # "new")
           => \A u \in Users \ {ev[t1].user} : ENABLED TakenUp(t2, u)

\* The placement rectangle of the resized overlay covers position p
InRectangle(p) ==
    /\ fs.out.pos_x < p[1] /\ p[1] <= fs.out.pos_x + fs.out.logo_width
    /\ fs.out.pos_y < p[2] /\ p[2] <= fs.out.pos_y + fs.out.logo_height

\* The overlay pixel that lies over position p of the card
OverlayAt(p) ==
    Resized(fs.overlay, fs.out.logo_width, fs.out.logo_height).px[
        <<p[1] - fs.out.pos_x, p[2] - fs.out.pos_y>>]

\* C11: the image add_foil_stamp returns has the card's width and height;
\* each of its pixels outside the overlay's placement rectangle is the card
\* pixel at that position (as RGBA), and so is each pixel inside it under
\* a fully transparent overlay pixel.
FrameOfComposite ==
    (fs.phase = "out" /\ fs.out.ok)
       => /\ fs.png.w = fs.card.w /\ fs.png.h = fs.card.h
          /\ DOMAIN fs.png.px = Positions(fs.card.w, fs.card.h)
          /\ \A p \in Positions(fs.card.w, fs.card.h) :
                (~InRectangle(p) \/ OverlayAt(p).a = 0)
                   => fs.png.px[p] = ToRGBA(fs.card.mode, fs.card.px[p])

\* C11 witness: a stamped card with a pixel outside the rectangle, a pixel
\* under a transparent overlay pixel and a pixel the overlay replaced
StampedInPart ==
    /\ fs.phase = "out" /\ fs.out.ok
    /\ \E p, q, r \in Positions(fs.card.w, fs.card.h) :
          /\ ~InRectangle(p)
          /\ InRectangle(q) /\ OverlayAt(q).a = 0
          /\ InRectangle(r) /\ fs.png.px[r].c = Foil

\* C12: the call of add_foil_stamp leaves the caller's card_image as it
\* was: its mode, its size and every pixel.
InputsNotMutated ==
    [][fs.phase = "in" => fs'.card = fs.card]_vars

\* C12 witness: a card that was RGBA already has been stamped, and the
\* returned image differs from it
StampedCopy ==
    /\ fs.phase = "out" /\ fs.out.ok
    /\ fs.card.mode = "RGBA"
    /\ fs.png.px # fs.card.px

\* The environment lets the module load: PORT unset or a number, the bot
\* token set
GoodEnviron ==
    /\ ld.environ.PORT.set => IsIntLiteral(ld.environ.PORT.value)
    /\ ld.environ.TELEGRAM_BOT_TOKEN

\* How often callback h has been registered on the application
Registered(h) ==
    Cardinality({i \in DOMAIN ld.handlers : ld.handlers[i] = h})

\* C15, as claimed: a registration runs only once ptb_app is bound, and
\* under an environment that lets the module load, the load ends without
\* an error, the webhook endpoint defined.
RegistrationAfterCreation ==
    /\ (~ld.ended /\ ModuleBody[ld.at].op = "add_handler")
          => "ptb_app" \in ld.names
    /\ (ld.ended /\ GoodEnviron)
          => ld.error = "none" /\ "telegram_webhook" \in ld.names

\* C16, as claimed: once the module has been loaded, each of start,
\* generate, handle_image and button_callback is registered on the
\* application exactly once.
RegisteredOnce ==
    (ld.ended /\ GoodEnviron) => \A h \in Callbacks : Registered(h) = 1

HandledKinds == {"start", "generate", "photo", "button"}

\* Update t is taken off the queue in this step and is no photo, no start
\* or generate command and no button click
OtherEvent(t) ==
    pc[t] = "new" /\ pc'[t] # "new" /\ ev'[t].kind \notin HandledKinds

\* C13, as claimed: an update of any other kind is answered (its task is
\* taken to the await of a reply), and the step makes no call of the image
\* API and changes no gate.
FallbackReply ==
    [][\A t \in Tasks :
          OtherEvent(t) => /\ pc'[t] \in AwaitLabels
                           /\ synth' = synth
                           /\ user_data' = user_data]_vars

\* C14: no two handlers of one user are past the gate check with an
\* accepted image and not yet ended.
OneInFlightPerUser ==
    \A t1, t2 \in Tasks :
        (t1 # t2 /\ gate[t1] = "accepted" /\ gate[t2] = "accepted")
           => ev[t1].user # ev[t2].user

\* C14 witness: a user's second accepted image is in flight, after commands,
\* a click and a first image of that user
SecondRequestInFlight ==
    \E t \in Tasks :
        /\ gate[t] = "accepted" /\ pc[t] = "synth"
        /\ hist[ev[t].user] =
              <<"generate", "accepted", "create_another", "accepted">>

ArmingEvents == {"generate", "create_another"}

\* The user whose update task t handles in this step
Handles(t, v) ==
    pc'[t] # pc[t] /\ (ev[t].user = v \/ ev'[t].user = v)

\* C17: a step changes the gate flag of user v only if it handles an update
\* of v, and v's image is accepted exactly when the last of v's own gate
\* events before it was an arming event.
UsersIndependent ==
    [][/\ \A v \in Users :
             user_data'[v] # user_data[v] => \E t \in Tasks : Handles(t, v)
       /\ \A t \in Tasks :
             (pc[t] = "new" /\ ev'[t].kind = "photo")
                => LET h == hist[ev'[t].user]
                   IN  gate'[t] = "accepted"
                          <=> (h # <<>> /\ h[Len(h)] \in ArmingEvents)]_vars

\* C17 witness: one user's image is rejected while the other user's gate is
\* armed
RejectedBesideArmed ==
    \E t \in Tasks, v \in Users :
        /\ gate[t] = "rejected" /\ v # ev[t].user
        /\ GateOpen(user_data[v])

\* C18: a gate goes from closed to armed only in the step that starts the
\* generate handler of its user or that resumes a "create_another" click of
\* its user after query.answer(); no step of a start handler or of a click
\* with other data changes any gate.
OnlyTriggersArm ==
    [][/\ \A u \in Users :
             (GateOpen(user_data'[u]) /\ ~GateOpen(user_data[u]))
                => \E t \in Tasks :
                      \/ /\ pc[t] = "new"
                         /\ ev'[t] = [kind |-> "generate", user |-> u,
                                      data |-> "none"]
                      \/ /\ pc[t] = "answer" /\ pc'[t] = "button_reply"
                         /\ ev[t] = [kind |-> "button", user |-> u,
                                     data |-> "create_another"]
       /\ \A t \in Tasks :
             (/\ pc'[t] # pc[t]
              /\ \/ ev[t].kind = "start" \/ ev'[t].kind = "start"
                 \/ (ev[t].kind = "button" /\ ev[t].data # "create_another")
                 \/ (ev'[t].kind = "button"
                       /\ ev'[t].data # "create_another"))
                => user_data' = user_data]_vars

\* C18 witness: a user's gate, closed by an accepted image, was armed by a
\* "create_another" click and is still armed while a start command of that
\* user is being answered
ArmedByClickKeptByStart ==
    \E t \in Tasks :
        /\ ev[t].kind = "start" /\ pc[t] = "start_reply"
        /\ hist[ev[t].user] = <<"generate", "accepted", "create_another">>
        /\ GateOpen(user_data[ev[t].user])

\* The candidate lines of a recognized text, by the rule of the claim: the
\* stripped non-empty lines longer than 5 and shorter than 80 characters
\* that hold neither "weak" nor "resist" in any letter case
Candidates(text) ==
    LET lines == StrippedLines(text)
    IN  {i \in DOMAIN lines :
           /\ Len(lines[i]) > 5 /\ Len(lines[i]) < 80
           /\ ~Contains(Lower(lines[i]), <<"w", "e", "a", "k">>)
           /\ ~Contains(Lower(lines[i]), <<"r", "e", "s", "i", "s", "t">>)}

\* C19: on a recognized text check_flavor_text returns true exactly when no
\* two candidate lines are identical.
FlavorTrueIffNoDuplicate ==
    (au.phase = "out" /\ ~au.ocr.raised)
       => (au.flavor <=>
             ~\E i, j \in Candidates(au.ocr.text) :
                 i # j /\ StrippedLines(au.ocr.text)[i]
                            = StrippedLines(au.ocr.text)[j])

\* C19 witness: the audit has returned false on a text with a candidate
\* line twice
DuplicateFlavorFound ==
    /\ au.phase = "out" /\ ~au.ocr.raised /\ ~au.flavor
    /\ Cardinality(Candidates(au.ocr.text)) = 2

\* How many of the events h[1..n] are in set S
RECURSIVE CountIn(_, _, _)
CountIn(h, n, S) ==
    IF n = 0 THEN 0
    ELSE CountIn(h, n - 1, S) + (IF h[n] \in S THEN 1 ELSE 0)

\* C20: at every point of a user's gate history the images accepted so far
\* are at most as many as the arming events handled before them, and
\* between two accepted images there is an arming event: arming events in
\* a row allow one image.
ArmingDoesNotAccumulate ==
    \A u \in Users :
        /\ \A n \in 1..Len(hist[u]) :
              CountIn(hist[u], n, {"accepted"})
                 <= CountIn(hist[u], n, ArmingEvents)
        /\ \A i, j \in 1..Len(hist[u]) :
              (i < j /\ hist[u][i] = "accepted" /\ hist[u][j] = "accepted")
                 => \E k \in (i + 1)..(j - 1) : hist[u][k] \in ArmingEvents

\* C20 witness: after two arming events in a row one image was accepted and
\* the next rejected
TwoArmingsOneImage ==
    \E u \in Users :
        hist[u] = <<"generate", "create_another", "accepted", "rejected">>

====
